---- MODULE Spec2Model ----
(***************************************************************************)
(* A model of configurable-exporter.py (the second, canonical copy of the  *)
(* program in the file, lines 147-353): run_script, add_instance_label and *)
(* the /metrics handler with its thread pool.                              *)
(*                                                                         *)
(* Text is modelled as a sequence of one-character strings, so that every  *)
(* formatting step (f-strings, splitlines, split, join, basename) is       *)
(* computed on characters as the code computes it.                         *)
(***************************************************************************)
EXTENDS Integers, Sequences, FiniteSets, TLC

VARIABLES
    instance_id,   \* config['instance_id']: the label value, or None
    text_in,       \* add_instance_label: the argument of the last (or first) call
    text_out,      \* add_instance_label: what the last call returned
    applied,       \* add_instance_label: calls made so far, each on the previous result
    rs_call,       \* run_script: the arguments and what the file system and the child process do
    rs_ret,        \* run_script: how the call ended, as [done, exc, text]
    configured_workers, \* config['max_workers']
    scripts,       \* config['scripts']
    max_workers,   \* metrics: the resolved worker count (0 before it is resolved)
    tasks,         \* metrics: the (idx, script_path, timeout) tuples built from scripts
    fut,           \* metrics: per task, the state of its future and what run_script returned
    output_chunks, \* metrics: the (idx, result) pairs collected so far
    completion,    \* history: the (idx, result) pairs in the order they were appended
    response,      \* metrics: the body of the Response
    pc             \* metrics: "start", "pool", "seq", "done" or "crashed"

injVars == <<text_in, text_out, applied>>
runVars == <<rs_call, rs_ret>>
cfgVars == <<configured_workers, scripts>>
metVars == <<max_workers, tasks, fut, output_chunks, completion, response, pc>>
vars == <<instance_id, text_in, text_out, applied, rs_call, rs_ret,
          configured_workers, scripts, max_workers, tasks, fut, output_chunks,
          completion, response, pc>>

----------------------------------------------------------------------------
(* Bounds of the model *)

\* longest text drawn over Alphabet for add_instance_label
MaxLen == 4
\* longest single line drawn over LineAlphabet for add_instance_label
MaxLineLen == 6
\* longest script path drawn over PathAlphabet for run_script
MaxPathLen == 3
\* how many times add_instance_label is applied in a row
MaxApply == 2
\* longest config['scripts'] list whose scripts are run by the handler
MaxScripts == 3
\* longest config['scripts'] list when only the worker count is resolved
MaxScriptCount == 12
\* largest integer configured as max_workers
MaxWorkersInput == 12
\* longest string configured as max_workers
MaxCfgLen == 3

----------------------------------------------------------------------------
(* Python's None, kept apart from every text (a text holds one-character   *)
(* strings only).                                                          *)
None == <<"None">>

(* Characters *)
NL == "\n"
CR == "\r"
TAB == "\t"
QUOTE == "\""

\* str.splitlines() boundaries among the characters of the model
LineBreaks == {NL, CR, "\f"}
\* str.isspace() among the characters of the model
Whitespace == {" ", TAB, NL, CR, "\f"}

(* s[i:] and s[:i] with Python's 0-based bounds, for 0 <= i <= len(s) *)
PyFrom(s, i) == SubSeq(s, i + 1, Len(s))
PyUpTo(s, i) == SubSeq(s, 1, i)

Contains(s, c) == \E i \in 1..Len(s) : s[i] = c

\* str.rfind(c): 0-based index of the last c, -1 when absent
RFind(s, c) ==
    IF Contains(s, c)
    THEN (CHOOSE i \in 1..Len(s) : s[i] = c /\ \A j \in (i+1)..Len(s) : s[j] # c) - 1
    ELSE -1

\* s[i] for a Python index i in -len(s)..len(s)-1 (a negative index counts from the end)
PyIndex(s, i) == IF i < 0 THEN s[Len(s) + i + 1] ELSE s[i + 1]

\* the positions of s that hold no whitespace
Blackspace(s) == {i \in 1..Len(s) : s[i] \notin Whitespace}

SetMin(S) == CHOOSE x \in S : \A y \in S : x <= y
SetMax(S) == CHOOSE x \in S : \A y \in S : x >= y

\* str.lstrip(), str.rstrip(), str.strip()
LStrip(s) == IF Blackspace(s) = {} THEN <<>> ELSE SubSeq(s, SetMin(Blackspace(s)), Len(s))
RStrip(s) == IF Blackspace(s) = {} THEN <<>> ELSE SubSeq(s, 1, SetMax(Blackspace(s)))
Strip(s) == RStrip(LStrip(s))

\* the length of the longest prefix of s free of whitespace
WordLen(s) ==
    LET ws == {i \in 1..Len(s) : s[i] \in Whitespace}
    IN  IF ws = {} THEN Len(s) ELSE SetMin(ws) - 1

\* str.split(None, 1): at most two parts, split at the first whitespace run
SplitOnce(s) ==
    LET t == LStrip(s)
        n == WordLen(t)
        rest == LStrip(PyFrom(t, n))
    IN  IF t = <<>> THEN <<>>
        ELSE IF rest = <<>> THEN <<PyUpTo(t, n)>>
        ELSE <<PyUpTo(t, n), rest>>

(* str.splitlines(): a line ends at each boundary, "\r\n" being one boundary,  *)
(* and what follows the last boundary is a line only when it is not empty.     *)
SplitLines(s) ==
    LET \* where a boundary starts: a line break that is not the "\n" of a "\r\n"
        starts == {i \in 1..Len(s) :
                     /\ s[i] \in LineBreaks
                     /\ ~(s[i] = NL /\ i > 1 /\ s[i - 1] = CR)}
        \* the last position of the boundary that starts at i
        stop(i) == IF s[i] = CR /\ i < Len(s) /\ s[i + 1] = NL THEN i + 1 ELSE i
        nth(k) == CHOOSE i \in starts : Cardinality({j \in starts : j < i}) = k - 1
        n == Cardinality(starts)
        first(k) == IF k = 1 THEN 1 ELSE stop(nth(k - 1)) + 1
        tailFrom == IF n = 0 THEN 1 ELSE stop(nth(n)) + 1
        ended == [k \in 1..n |-> SubSeq(s, first(k), nth(k) - 1)]
    IN  IF tailFrom <= Len(s) THEN Append(ended, SubSeq(s, tailFrom, Len(s))) ELSE ended

\* sep.join(parts)
RECURSIVE Join(_, _)
Join(sep, parts) ==
    IF parts = <<>> THEN <<>>
    ELSE IF Len(parts) = 1 THEN parts[1]
    ELSE parts[1] \o sep \o Join(sep, Tail(parts))

----------------------------------------------------------------------------
(* add_instance_label *)

\* the text instance_id="<v>" of lines 237 and 239
LabelText(v) ==
    <<"i","n","s","t","a","n","c","e","_","i","d","=",QUOTE>> \o v \o <<QUOTE>>

\* line 221: a blank line or a comment
IsSkipped(line) == Strip(line) = <<>> \/ Head(LStrip(line)) = "#"

\* lines 232-242 without the comma of line 237
NewLeftNoComma(left, v) ==
    IF Contains(left, "{") /\ Contains(left, "}")
    THEN LET pos == RFind(left, "}")
         IN  PyUpTo(left, pos) \o LabelText(v) \o PyFrom(left, pos)
    ELSE left \o <<"{">> \o LabelText(v) \o <<"}">>

(* lines 232-242: the left part with the label added. Line 237 nests an        *)
(* f-string with escaped quotes inside a replacement field, which Python reads  *)
(* from 3.12 on, as left[:pos] + ',' + 'instance_id="<v>"' + left[pos:].        *)
NewLeft(left, v) ==
    IF Contains(left, "{") /\ Contains(left, "}")
    THEN LET pos == RFind(left, "}")
         IN  IF PyIndex(left, pos - 1) # "{"
             THEN PyUpTo(left, pos) \o <<",">> \o LabelText(v) \o PyFrom(left, pos)
             ELSE PyUpTo(left, pos) \o LabelText(v) \o PyFrom(left, pos)
    ELSE left \o <<"{">> \o LabelText(v) \o <<"}">>

\* lines 218-244: one line of the loop
InjectLine(raw_line, v) ==
    LET line == raw_line
        parts == SplitOnce(line)
    IN  IF IsSkipped(line) THEN line
        ELSE IF Len(parts) < 2 THEN line
        ELSE NewLeft(parts[1], v) \o <<" ">> \o parts[2]

\* lines 207-246
add_instance_label(metrics_output, v) ==
    IF v = None \/ v = <<>> THEN metrics_output
    ELSE LET lines == SplitLines(metrics_output)
         IN  Join(<<NL>>, [i \in 1..Len(lines) |-> InjectLine(lines[i], v)])

----------------------------------------------------------------------------
(* The texts add_instance_label is applied to *)

Alphabet == {"f", "{", "}", QUOTE, " ", NL, "#", ","}
LineAlphabet == {"f", "{", "}", QUOTE, " ", ","}

Strings(A, n) == UNION {[1..k -> A] : k \in 0..n}

\* lines of the exposition format longer than the exhaustive bounds reach
Samples == {
    <<"f","o","o"," ","5">>,
    <<"f","o","o","{","b","a","r","=",QUOTE,"1",QUOTE,"}"," ","5">>,
    <<"f","o","o","{","a","=",QUOTE,"b"," ","c",QUOTE,"}"," ","1">>,
    <<"f","o","o","{","a","=",QUOTE,"b"," ","c",QUOTE,"}">>,
    <<"f","o","o","{","a","=",QUOTE,"1",QUOTE,",","}"," ","5">>,
    <<"f","o","o","{","a","=",QUOTE,"1",QUOTE," ","5">>,
    <<"#"," ","H","E","L","P"," ","f","o","o"," ","b","a","r">>,
    <<"#"," ","E","R","R","O","R",":"," ","S","c","r","i","p","t"," ","a",".","s","h"," ","f","a","i","l","e","d",NL>>,
    <<"f","o","o",TAB,"5"," ","9">>,
    <<"a"," ","1",CR,NL,"b"," ","2",NL>>
}

Texts == Strings(Alphabet, MaxLen) \cup Strings(LineAlphabet, MaxLineLen) \cup Samples

InstanceIds == {None, <<>>, <<"x">>}

NoCall == [script_path |-> <<>>, timeout |-> [none |-> TRUE, val |-> 0], isfile |-> FALSE,
           proc |-> [kind |-> "hang", returncode |-> 0, stdout |-> <<>>, reason |-> <<>>]]
NoRet == [done |-> FALSE, exc |-> "none", text |-> <<>>]

InjectIdle == text_in = <<>> /\ text_out = <<>> /\ applied = 0
RunIdle == rs_call = NoCall /\ rs_ret = NoRet
MetricsIdle ==
    /\ configured_workers = [kind |-> "none", int |-> 0, str |-> <<>>]
    /\ scripts = <<>>
    /\ max_workers = 0
    /\ tasks = <<>>
    /\ fut = <<>>
    /\ output_chunks = <<>>
    /\ completion = <<>>
    /\ response = <<>>
    /\ pc = "idle"

InitInject ==
    /\ instance_id \in InstanceIds
    /\ text_in \in Texts
    /\ text_out = <<>>
    /\ applied = 0
    /\ RunIdle
    /\ MetricsIdle

\* one call of add_instance_label: on the input first, then on what the call before returned
Inject ==
    /\ applied < MaxApply
    /\ LET arg == IF applied = 0 THEN text_in ELSE text_out
       IN  /\ text_in' = arg
           /\ text_out' = add_instance_label(arg, instance_id)
    /\ applied' = applied + 1
    /\ UNCHANGED <<instance_id, runVars, cfgVars, metVars>>

NextInject == Inject

SpecInject == InitInject /\ [][NextInject]_vars

----------------------------------------------------------------------------
(* run_script *)

DEFAULT_TIMEOUT == 20

NoneT == [none |-> TRUE, val |-> 0]
Some(n) == [none |-> FALSE, val |-> n]

\* str(n) of a non-negative int
RECURSIVE IntToStr(_)
IntToStr(n) ==
    LET d == <<"0","1","2","3","4","5","6","7","8","9">>[(n % 10) + 1]
    IN  IF n < 10 THEN <<d>> ELSE IntToStr(n \div 10) \o <<d>>

\* os.path.basename: what follows the last "/"
Basename(p) == PyFrom(p, RFind(p, "/") + 1)

ERR_SCRIPT == <<"#"," ","E","R","R","O","R",":"," ","S","c","r","i","p","t"," ">>
ERR_FAILED == <<" ","f","a","i","l","e","d",NL>>
ERR_TIMED_OUT == <<" ","t","i","m","e","d"," ","o","u","t"," ","a","f","t","e","r"," ">>
ERR_SECONDS == <<"s",NL>>
ERR_FAILED_TO_RUN == <<"#"," ","E","R","R","O","R",":"," ","F","a","i","l","e","d"," ","t","o"," ","r","u","n"," ","s","c","r","i","p","t"," ">>
ERR_COLON == <<":"," ">>
ERR_NOT_FOUND == <<"S","c","r","i","p","t"," ","n","o","t"," ","f","o","u","n","d",":"," ">>

\* line 197
FailedText(script_path) == ERR_SCRIPT \o Basename(script_path) \o ERR_FAILED
\* line 202
TimedOutText(script_path, timeout) ==
    ERR_SCRIPT \o Basename(script_path) \o ERR_TIMED_OUT \o IntToStr(timeout) \o ERR_SECONDS
\* lines 205 (and 187 for the reason of a missing file)
FailedToRunText(script_path, reason) ==
    ERR_FAILED_TO_RUN \o Basename(script_path) \o ERR_COLON \o reason \o <<NL>>

Return(t) == [exc |-> "none", text |-> t]
Raise(e, msg) == [exc |-> e, text |-> msg]

\* the body of the try without the returncode test of line 195
TryBodyIgnoringStatus(script_path, isfile, proc) ==
    IF ~isfile THEN Raise("FileNotFoundError", ERR_NOT_FOUND \o script_path)
    ELSE IF proc.kind = "hang" THEN Raise("TimeoutExpired", <<>>)
    ELSE IF proc.kind = "oserror" THEN Raise("OSError", proc.reason)
    ELSE Return(proc.stdout)

(* lines 186-199, the body of the try. isfile is os.path.isfile(script_path);  *)
(* proc is what subprocess.run does: "exit" (a CompletedProcess), "hang"       *)
(* (it raises TimeoutExpired) or "oserror" (it raises another exception, with  *)
(* str(e) as reason). args are handed to the child as they are.                *)
TryBody(script_path, isfile, proc) ==
    IF ~isfile THEN Raise("FileNotFoundError", ERR_NOT_FOUND \o script_path)
    ELSE IF proc.kind = "hang" THEN Raise("TimeoutExpired", <<>>)
    ELSE IF proc.kind = "oserror" THEN Raise("OSError", proc.reason)
    ELSE IF proc.returncode # 0 THEN Return(FailedText(script_path))
    ELSE Return(proc.stdout)

(* lines 179-205: the try with its two except clauses. The result is           *)
(* [exc, text]: exc is "none" for a return, else the exception that escapes.   *)
run_script(script_path, timeout, isfile, proc) ==
    LET t == IF timeout.none THEN DEFAULT_TIMEOUT ELSE timeout.val
        r == TryBody(script_path, isfile, proc)
    IN  IF r.exc = "none" THEN r
        ELSE IF r.exc = "TimeoutExpired" THEN Return(TimedOutText(script_path, t))
        ELSE Return(FailedToRunText(script_path, r.text))

PathAlphabet == {"/", "a", "."}
Paths == Strings(PathAlphabet, MaxPathLen)
Timeouts == {NoneT, Some(1), Some(10), Some(105)}
Stdouts == {<<>>, <<"m"," ","1",NL>>}
Reasons == {<<"P","e","r","m","i","s","s","i","o","n"," ","d","e","n","i","e","d">>}
Procs ==
    [kind : {"exit"}, returncode : {0, 1, 0 - 9}, stdout : Stdouts, reason : {<<>>}]
    \cup [kind : {"hang"}, returncode : {0}, stdout : Stdouts, reason : {<<>>}]
    \cup [kind : {"oserror"}, returncode : {0}, stdout : {<<>>}, reason : Reasons]

InitRun ==
    /\ instance_id = None
    /\ InjectIdle
    /\ rs_call \in [script_path : Paths, timeout : Timeouts, isfile : BOOLEAN, proc : Procs]
    /\ rs_ret = NoRet
    /\ MetricsIdle

\* the call run_script(script_path, args, timeout) and its return
RunScript ==
    /\ ~rs_ret.done
    /\ LET r == run_script(rs_call.script_path, rs_call.timeout, rs_call.isfile, rs_call.proc)
       IN  rs_ret' = [done |-> TRUE, exc |-> r.exc, text |-> r.text]
    /\ UNCHANGED <<instance_id, injVars, rs_call, cfgVars, metVars>>

NextRun == RunScript

SpecRun == InitRun /\ [][NextRun]_vars

----------------------------------------------------------------------------
(* metrics: the worker count, lines 260-267 *)

MAX_WORKERS_CAP == 10

Min(a, b) == IF a < b THEN a ELSE b
Max(a, b) == IF a > b THEN a ELSE b

DigitChars == {"0","1","2","3","4","5","6","7","8","9"}
DigitVal(c) == CHOOSE d \in 0..9 : <<"0","1","2","3","4","5","6","7","8","9">>[d + 1] = c

RECURSIVE DigitsVal(_, _)
DigitsVal(s, acc) ==
    IF s = <<>> THEN acc
    ELSE IF Head(s) = "_" THEN DigitsVal(Tail(s), acc)
    ELSE DigitsVal(Tail(s), 10 * acc + DigitVal(Head(s)))

(* int(s) of a str: surrounding whitespace is dropped, then an optional sign   *)
(* and decimal digits, single underscores allowed between digits. [ok, val];   *)
(* ok is FALSE where int() raises ValueError.                                  *)
PyIntOfStr(s) ==
    LET t == Strip(s)
        signed == t # <<>> /\ Head(t) \in {"-", "+"}
        body == IF signed THEN Tail(t) ELSE t
        wellformed ==
            /\ body # <<>>
            /\ Head(body) \in DigitChars
            /\ body[Len(body)] \in DigitChars
            /\ \A i \in 1..Len(body) : body[i] \in DigitChars \cup {"_"}
            /\ \A i \in 1..(Len(body) - 1) : ~(body[i] = "_" /\ body[i + 1] = "_")
    IN  IF ~wellformed THEN [ok |-> FALSE, val |-> 0]
        ELSE IF signed /\ Head(t) = "-" THEN [ok |-> TRUE, val |-> 0 - DigitsVal(body, 0)]
        ELSE [ok |-> TRUE, val |-> DigitsVal(body, 0)]

CfgNone == [kind |-> "none", int |-> 0, str |-> <<>>]
CfgInt(n) == [kind |-> "int", int |-> n, str |-> <<>>]
CfgStr(str) == [kind |-> "str", int |-> 0, str |-> str]

\* int(configured_workers), line 265
PyInt(c) == IF c.kind = "int" THEN [ok |-> TRUE, val |-> c.int] ELSE PyIntOfStr(c.str)

\* lines 260-267 without the max(1, ...) of line 265
ResolveMaxWorkersNoFloor(configured, scripts_) ==
    IF configured.kind = "none"
    THEN Min(IF scripts_ # <<>> THEN Len(scripts_) ELSE 1, MAX_WORKERS_CAP)
    ELSE IF PyInt(configured).ok
         THEN Min(PyInt(configured).val, MAX_WORKERS_CAP)
         ELSE 1

\* lines 260-267
ResolveMaxWorkers(configured, scripts_) ==
    IF configured.kind = "none"
    THEN Min(IF scripts_ # <<>> THEN Len(scripts_) ELSE 1, MAX_WORKERS_CAP)
    ELSE IF PyInt(configured).ok
         THEN Max(1, Min(PyInt(configured).val, MAX_WORKERS_CAP))
         ELSE 1

----------------------------------------------------------------------------
(* metrics: the tasks, lines 269-283 *)

\* an entry of config['scripts']: path and timeout are None where the key is absent
NotDict == [isdict |-> FALSE, path |-> None, timeout |-> NoneT]
Script(path, timeout) == [isdict |-> TRUE, path |-> path, timeout |-> timeout]

\* os.path.dirname(config_file): config_file is an absolute path
ConfigDir == <<"/","c">>
\* config.get('default_timeout', DEFAULT_TIMEOUT) of a configuration that sets none
default_timeout == Some(DEFAULT_TIMEOUT)

IsAbs(path) == path # <<>> /\ Head(path) = "/"
\* os.path.join(a, b) for a relative b
PathJoin(a, b) ==
    IF a = <<>> \/ a[Len(a)] = "/" THEN a \o b ELSE a \o <<"/">> \o b

\* lines 276-277
ResolvePath(path) == IF IsAbs(path) THEN path ELSE PathJoin(ConfigDir, path)

\* lines 271-275: the entries the loop skips
IsSkippedScript(script) == ~script.isdict \/ script.path = None \/ script.path = <<>>

\* lines 269-280: enumerate(scripts) gives idx from 0
RECURSIVE BuildTasks(_, _)
BuildTasks(scripts_, idx) ==
    IF idx >= Len(scripts_) THEN <<>>
    ELSE LET script == scripts_[idx + 1]
             rest == BuildTasks(scripts_, idx + 1)
         IN  IF IsSkippedScript(script) THEN rest
             ELSE <<[idx |-> idx,
                     script_path |-> ResolvePath(script.path),
                     timeout |-> IF script.timeout.none THEN default_timeout
                                 ELSE script.timeout]>> \o rest

NO_SCRIPTS == <<"#"," ","N","o"," ","s","c","r","i","p","t","s"," ","c","o","n","f","i","g","u","r","e","d",NL>>
ERR_EXCEPTION == <<"#"," ","E","R","R","O","R",":"," ","E","x","c","e","p","t","i","o","n"," ","r","u","n","n","i","n","g"," ","s","c","r","i","p","t"," ">>

----------------------------------------------------------------------------
(* metrics: running the tasks and building the response, lines 285-309 *)

\* list.sort(key=idx) is stable: an insertion that goes past smaller or equal keys
RECURSIVE InsertChunk(_, _)
InsertChunk(sorted, c) ==
    IF sorted = <<>> THEN <<c>>
    ELSE IF sorted[Len(sorted)][1] <= c[1] THEN Append(sorted, c)
    ELSE Append(InsertChunk(SubSeq(sorted, 1, Len(sorted) - 1), c), sorted[Len(sorted)])

RECURSIVE SortAcc(_, _)
SortAcc(chunks, acc) ==
    IF chunks = <<>> THEN acc ELSE SortAcc(Tail(chunks), InsertChunk(acc, Head(chunks)))

\* the handler without its sort of line 307: the pairs stay in completion order
SortChunksMissing(chunks) == chunks

\* line 307
SortChunks(chunks) == SortAcc(chunks, <<>>)

\* line 308
Combine(chunks) == Join(<<NL>>, [k \in 1..Len(chunks) |-> chunks[k][2]])

\* lines 294-298: f.result(), or the sentinel when it raises
FutureResult(idx, ret) ==
    IF ret.exc # "none" THEN ERR_EXCEPTION \o IntToStr(idx) \o <<NL>> ELSE ret.text

\* lines 299-300 and 304-305
Chunk(idx, result) == <<idx, add_instance_label(result, instance_id)>>

\* a loop that stops after its first pass instead of running over every task
AllCollectedAfterFirst(tasks_, chunks) == Len(chunks) >= 1

\* the for loops of lines 292 and 302 are over: every task has its chunk
AllCollected(tasks_, chunks) == Len(chunks) = Len(tasks_)

\* what the file system and the child process of one task may do: the file is
\* missing, the child outlives its timeout, exits with status 1, or exits with 0
Worlds ==
    {[isfile |-> FALSE, proc |-> [kind |-> "hang", returncode |-> 0, stdout |-> <<>>, reason |-> <<>>]],
     [isfile |-> TRUE, proc |-> [kind |-> "hang", returncode |-> 0, stdout |-> <<>>, reason |-> <<>>]],
     [isfile |-> TRUE, proc |-> [kind |-> "exit", returncode |-> 1, stdout |-> <<"m"," ","1",NL>>, reason |-> <<>>]],
     [isfile |-> TRUE, proc |-> [kind |-> "exit", returncode |-> 0, stdout |-> <<"m"," ","1",NL>>, reason |-> <<>>]]}
RunTask(task, world) == run_script(task.script_path, task.timeout, world.isfile, world.proc)

Running == {k \in 1..Len(fut) : fut[k].state = "running"}
Queued == {k \in 1..Len(fut) : fut[k].state = "queued"}

(* lines 254-291: the worker count, the tasks, and either the early response   *)
(* or the submission of every task to the pool (or the start of the loop).     *)
Begin ==
    /\ pc = "start"
    /\ max_workers' = ResolveMaxWorkers(configured_workers, scripts)
    /\ tasks' = BuildTasks(scripts, 0)
    /\ IF tasks' = <<>>
       THEN /\ response' = NO_SCRIPTS
            /\ pc' = "done"
            /\ fut' = <<>>
       ELSE /\ response' = <<>>
            /\ pc' = IF max_workers' > 1 THEN "pool" ELSE "seq"
            /\ fut' = [k \in 1..Len(tasks') |-> [state |-> "queued", ret |-> Return(<<>>)]]
    /\ UNCHANGED <<instance_id, injVars, runVars, cfgVars, output_chunks, completion>>

\* a free pool thread takes the oldest queued task (the work queue is first in, first out)
WorkerStart ==
    /\ pc = "pool"
    /\ Queued # {}
    /\ Cardinality(Running) < max_workers
    /\ LET k == CHOOSE q \in Queued : \A r \in Queued : q <= r
       IN  fut' = [fut EXCEPT ![k].state = "running"]
    /\ UNCHANGED <<instance_id, injVars, runVars, cfgVars, max_workers, tasks,
                   output_chunks, completion, response, pc>>

\* a pool thread's run_script call ends and sets its future
WorkerFinish ==
    /\ pc = "pool"
    /\ \E k \in Running : \E world \in Worlds :
         fut' = [fut EXCEPT ![k] = [state |-> "finished", ret |-> RunTask(tasks[k], world)]]
    /\ UNCHANGED <<instance_id, injVars, runVars, cfgVars, max_workers, tasks,
                   output_chunks, completion, response, pc>>

\* lines 292-300: as_completed yields a finished future; one pass of the loop body
Collect ==
    /\ pc = "pool"
    /\ \E k \in 1..Len(fut) :
         /\ fut[k].state = "finished"
         /\ fut' = [fut EXCEPT ![k].state = "collected"]
         /\ LET c == Chunk(tasks[k].idx, FutureResult(tasks[k].idx, fut[k].ret))
            IN  /\ output_chunks' = Append(output_chunks, c)
                /\ completion' = Append(completion, c)
    /\ UNCHANGED <<instance_id, injVars, runVars, cfgVars, max_workers, tasks, response, pc>>

\* lines 302-305: one pass of the sequential loop; an exception of run_script is not caught
SeqStep ==
    /\ pc = "seq"
    /\ ~AllCollected(tasks, output_chunks)
    /\ LET k == Len(output_chunks) + 1
       IN  \E world \in Worlds :
             LET ret == RunTask(tasks[k], world)
             IN  IF ret.exc # "none"
                 THEN /\ pc' = "crashed"
                      /\ UNCHANGED <<fut, output_chunks, completion>>
                 ELSE /\ pc' = pc
                      /\ fut' = [fut EXCEPT ![k] = [state |-> "collected", ret |-> ret]]
                      /\ LET c == Chunk(tasks[k].idx, ret.text)
                         IN  /\ output_chunks' = Append(output_chunks, c)
                             /\ completion' = Append(completion, c)
    /\ UNCHANGED <<instance_id, injVars, runVars, cfgVars, max_workers, tasks, response>>

\* lines 307-309: after the loop, sort, join and respond
Respond ==
    /\ pc \in {"pool", "seq"}
    /\ AllCollected(tasks, output_chunks)
    /\ output_chunks' = SortChunks(output_chunks)
    /\ response' = Combine(output_chunks')
    /\ pc' = "done"
    /\ UNCHANGED <<instance_id, injVars, runVars, cfgVars, max_workers, tasks, fut, completion>>

\* idx as a script name: "s0", "s1", ...
ScriptName(i) == <<"s">> \o IntToStr(i)

\* what entry i (from 0) of config['scripts'] may be: not a mapping, a mapping with
\* no path, or a script "s<i>", with its own timeout of 1 s at the odd positions
ScriptEntries(i) ==
    {NotDict, Script(None, NoneT),
     Script(ScriptName(i), IF i % 2 = 0 THEN NoneT ELSE Some(1))}

ScriptLists(n) ==
    UNION {{l \in [1..m -> UNION {ScriptEntries(i) : i \in 0..(m - 1)}] :
              \A k \in 1..m : l[k] \in ScriptEntries(k - 1)} : m \in 0..n}

Init ==
    /\ instance_id \in {None, <<"x">>}
    /\ InjectIdle
    /\ RunIdle
    /\ configured_workers \in {CfgNone, CfgInt(1), CfgInt(2)}
    /\ scripts \in ScriptLists(MaxScripts)
    /\ max_workers = 0
    /\ tasks = <<>>
    /\ fut = <<>>
    /\ output_chunks = <<>>
    /\ completion = <<>>
    /\ response = <<>>
    /\ pc = "start"

Next ==
    \/ Begin
    \/ WorkerStart
    \/ WorkerFinish
    \/ Collect
    \/ SeqStep
    \/ Respond

Spec == Init /\ [][Next]_vars

----------------------------------------------------------------------------
(* The worker count alone, over every kind of configured value *)

CfgAlphabet == {"1", "0", "a", "-", "_", " "}

WorkerConfigs ==
    {CfgNone}
    \cup {CfgInt(n) : n \in (0 - 2)..MaxWorkersInput}
    \cup {CfgStr(str) : str \in Strings(CfgAlphabet, MaxCfgLen)}

InitWorkers ==
    /\ instance_id = None
    /\ InjectIdle
    /\ RunIdle
    /\ configured_workers \in WorkerConfigs
    /\ scripts \in {[k \in 1..n |-> NotDict] : n \in 0..MaxScriptCount}
    /\ max_workers = 0
    /\ tasks = <<>>
    /\ fut = <<>>
    /\ output_chunks = <<>>
    /\ completion = <<>>
    /\ response = <<>>
    /\ pc = "start"

NextWorkers == Begin

SpecWorkers == InitWorkers /\ [][NextWorkers]_vars

----------------------------------------------------------------------------
(* Vocabulary of the properties. These definitions state what a property   *)
(* expects; none of them is used by the model above.                       *)

\* a label value is configured
HasLabel == instance_id # None /\ instance_id # <<>>

\* the assignment instance_id="<v>" a rewritten line is expected to carry
ExpectedLabel(v) ==
    <<"i","n","s","t","a","n","c","e","_","i","d","=","\"">> \o v \o <<"\"">>
LabelKey == <<"i","n","s","t","a","n","c","e","_","i","d","=">>

HasSub(s, w) == \E i \in 0..(Len(s) - Len(w)) : SubSeq(s, i + 1, i + Len(w)) = w

IsBreakChar(c) == c \in {"\n", "\r", "\f"}
IsSpaceChar(c) == c \in {" ", "\t"} \/ IsBreakChar(c)
OneLine(s) == \A i \in 1..Len(s) : ~IsBreakChar(s[i])

\* position i of s is the first non-blank character of its line
FirstOfLine(s, i) ==
    /\ ~IsSpaceChar(s[i])
    /\ \A j \in 1..(i - 1) :
         IsSpaceChar(s[j]) \/ \E b \in (j + 1)..(i - 1) : IsBreakChar(s[b])

\* every line of s is blank or a comment
OnlyCommentsAndBlanks(s) == \A i \in 1..Len(s) : FirstOfLine(s, i) => s[i] = "#"

\* a one-line text that is neither blank nor a comment
IsMetricLine(s) ==
    /\ OneLine(s)
    /\ \E i \in 1..Len(s) : FirstOfLine(s, i) /\ s[i] # "#"

(* A well-formed line: <name> <value> or <name>{<labels>} <value>, one space   *)
(* before the value, no whitespace or braces in the labels.                    *)
IsNameChar(c) == ~IsSpaceChar(c) /\ c \notin {"{", "}", "\"", "#", ",", "="}
IsLabelChar(c) == ~IsSpaceChar(c) /\ c \notin {"{", "}"}
NameLen(s) ==
    LET stops == {i \in 1..Len(s) : ~IsNameChar(s[i])}
    IN  IF stops = {} THEN Len(s) ELSE (CHOOSE i \in stops : \A j \in stops : i <= j) - 1
IsValue(val) == val # <<>> /\ ~IsSpaceChar(val[1]) /\ OneLine(val)

NameOf(s) == SubSeq(s, 1, NameLen(s))
IsBareLine(s) ==
    /\ NameLen(s) >= 1
    /\ Len(s) > NameLen(s) + 1
    /\ s[NameLen(s) + 1] = " "
    /\ IsValue(SubSeq(s, NameLen(s) + 2, Len(s)))
BareValue(s) == SubSeq(s, NameLen(s) + 2, Len(s))

\* the first "}" of s
CloseOf(s) == CHOOSE c \in 1..Len(s) : s[c] = "}" /\ \A j \in 1..(c - 1) : s[j] # "}"
LabelsOf(s) == SubSeq(s, NameLen(s) + 2, CloseOf(s) - 1)
LabelledValue(s) == SubSeq(s, CloseOf(s) + 2, Len(s))
\* <name>{<labels>} <value>, the labels possibly empty
IsBracedLine(s) ==
    /\ NameLen(s) >= 1
    /\ Len(s) > NameLen(s)
    /\ s[NameLen(s) + 1] = "{"
    /\ \E c \in 1..Len(s) : s[c] = "}"
    /\ \A i \in 1..Len(LabelsOf(s)) : IsLabelChar(LabelsOf(s)[i])
    /\ Len(s) > CloseOf(s) + 1
    /\ s[CloseOf(s) + 1] = " "
    /\ IsValue(LabelledValue(s))
    /\ ~HasSub(LabelsOf(s), LabelKey)
IsLabelledLine(s) == IsBracedLine(s) /\ LabelsOf(s) # <<>>

(* The quote-aware reading of a line: a character is unquoted when it is not   *)
(* a double quote and an even number of double quotes precede it.              *)
QuotesBefore(s, i) == Cardinality({j \in 1..(i - 1) : s[j] = "\""})
Unquoted(s, i) == s[i] # "\"" /\ QuotesBefore(s, i) % 2 = 0
UnquotedAt(s, c) == {i \in 1..Len(s) : s[i] = c /\ Unquoted(s, i)}
UnquotedSpaces(s) == {i \in 1..Len(s) : IsSpaceChar(s[i]) /\ Unquoted(s, i)}
Least(S) == CHOOSE x \in S : \A y \in S : x <= y

\* the first unquoted "{", when it comes before every unquoted space
HasOpen(s) ==
    /\ UnquotedAt(s, "{") # {}
    /\ \A w \in UnquotedSpaces(s) : Least(UnquotedAt(s, "{")) < w
OpenOf(s) == Least(UnquotedAt(s, "{"))
\* the unquoted "}" that bring the nesting depth since OpenOf(s) back to zero
Closers(s) ==
    {c \in UnquotedAt(s, "}") :
       /\ c > OpenOf(s)
       /\ Cardinality({i \in UnquotedAt(s, "{") : OpenOf(s) <= i /\ i < c})
            = Cardinality({i \in UnquotedAt(s, "}") : OpenOf(s) < i /\ i <= c})}
HasMatch(s) == HasOpen(s) /\ Closers(s) # {}
MatchOf(s) == Least(Closers(s))

----------------------------------------------------------------------------
(* Properties of the /metrics handler, under Spec *)

Blocks(chunks) == {chunks[k] : k \in 1..Len(chunks)}
\* the block made for the script at position idx
BlockOf(idx) == (CHOOSE c \in Blocks(completion) : c[1] = idx)[2]

RECURSIVE JoinBlocks(_)
JoinBlocks(blocks) ==
    IF blocks = <<>> THEN <<>>
    ELSE IF Len(blocks) = 1 THEN blocks[1]
    ELSE blocks[1] \o <<"\n">> \o JoinBlocks(Tail(blocks))

(* C1: when the handler has responded for a non-empty task list, on the pooled *)
(* and on the sequential path alike, the collected pairs stand in strictly     *)
(* ascending original position and the response is the blocks of the scripts   *)
(* in that order, joined by one newline, whatever the order in which the       *)
(* tasks completed.                                                            *)
C1_OutputInConfigOrder ==
    (pc = "done" /\ tasks # <<>>) =>
        /\ \A k \in 1..(Len(output_chunks) - 1) :
             output_chunks[k][1] < output_chunks[k + 1][1]
        /\ Blocks(output_chunks) = Blocks(completion)
        /\ response = JoinBlocks([k \in 1..Len(tasks) |-> BlockOf(tasks[k].idx)])

\* C1's case: a pooled run has responded after a later script's block, a different
\* text, was collected before an earlier script's
C1_Witness ==
    /\ pc = "done"
    /\ max_workers > 1
    /\ \E j \in 1..Len(completion) : \E k \in (j + 1)..Len(completion) :
         completion[j][1] > completion[k][1] /\ completion[j][2] # completion[k][2]

AllScriptsValid ==
    /\ scripts # <<>>
    /\ \A k \in 1..Len(scripts) :
         scripts[k].isdict /\ scripts[k].path # None /\ scripts[k].path # <<>>

(* C2: for a non-empty script list whose entries all have a non-empty path,    *)
(* the handler never dies of a task's failure, and when it responds the        *)
(* collection holds exactly one entry for each script position, with no        *)
(* future left uncollected.                                                    *)
C2_OneResultPerSpec ==
    AllScriptsValid =>
        /\ pc # "crashed"
        /\ pc = "done" =>
             /\ Len(output_chunks) = Len(scripts)
             /\ \A i \in 0..(Len(scripts) - 1) :
                  Cardinality({k \in 1..Len(output_chunks) : output_chunks[k][1] = i}) = 1
             /\ \A k \in 1..Len(fut) : fut[k].state = "collected"

\* C2's case: a run over at least two valid scripts has responded, one script's
\* block an error sentinel and another's its stdout
C2_Witness ==
    /\ AllScriptsValid
    /\ pc = "done"
    /\ Len(scripts) >= 2
    /\ \E j \in 1..Len(output_chunks) : \E k \in 1..Len(output_chunks) :
         /\ output_chunks[j][2] # <<>> /\ output_chunks[j][2][1] = "#"
         /\ output_chunks[k][2] # <<>> /\ output_chunks[k][2][1] = "m"

----------------------------------------------------------------------------
(* Properties of add_instance_label, under SpecInject. After a call,       *)
(* text_in is the argument of the call and text_out is what it returned.   *)

(* C3: add_instance_label is idempotent: applied to its own result with the    *)
(* same label, it returns that result unchanged, so a line that already        *)
(* carries instance_id gets no second one.                                     *)
C3_Idempotent == applied >= 2 => text_out = text_in

(* C4: with a label configured, a text whose lines are all comments or blank   *)
(* is returned byte for byte, line boundaries and final newline included.      *)
C4_CommentsUntouched ==
    (applied >= 1 /\ HasLabel /\ OnlyCommentsAndBlanks(text_in)) => text_out = text_in

(* C5: with a label v configured, a well-formed bare line <name> <value>       *)
(* becomes <name>{instance_id="v"} <value>, and a well-formed line             *)
(* <name>{<labels>} <value> with non-empty labels free of instance_id becomes  *)
(* <name>{<labels>,instance_id="v"} <value>.                                   *)
C5_WellFormedRewrite ==
    (applied >= 1 /\ HasLabel) =>
        /\ IsBareLine(text_in) =>
             text_out = NameOf(text_in) \o <<"{">> \o ExpectedLabel(instance_id)
                          \o <<"}", " ">> \o BareValue(text_in)
        /\ IsLabelledLine(text_in) =>
             text_out = NameOf(text_in) \o <<"{">> \o LabelsOf(text_in) \o <<",">>
                          \o ExpectedLabel(instance_id) \o <<"}", " ">>
                          \o LabelledValue(text_in)

\* C5's case: a call on a well-formed line with a name and existing labels returned
\* the line with the label appended to them
C5_Witness ==
    /\ applied >= 1
    /\ HasLabel
    /\ IsLabelledLine(text_in)
    /\ LabelsOf(text_in)[Len(LabelsOf(text_in))] = "\""
    /\ HasSub(text_out, <<",">> \o ExpectedLabel(instance_id) \o <<"}">>)

(* C8: with a label configured, on a metric line free of instance_id whose     *)
(* label set is opened by the first unquoted "{" and closed by the matching    *)
(* unquoted "}", a value following, the label is inserted just before that "}" *)
(* (after a comma or not) and every other character of the line is kept.       *)
C8_QuoteAwareInsert ==
    (/\ applied >= 1 /\ HasLabel
     /\ IsMetricLine(text_in)
     /\ ~HasSub(text_in, LabelKey)
     /\ HasMatch(text_in)
     /\ \E w \in UnquotedSpaces(text_in) : w > MatchOf(text_in)
     /\ \E i \in (MatchOf(text_in) + 1)..Len(text_in) : ~IsSpaceChar(text_in[i]))
    => \E sep \in {<<>>, <<",">>} :
         text_out = SubSeq(text_in, 1, MatchOf(text_in) - 1) \o sep
                      \o ExpectedLabel(instance_id)
                      \o SubSeq(text_in, MatchOf(text_in), Len(text_in))

(* C9: with a label configured, on a line <name>{<interior>} <value> the label *)
(* is appended to the interior after a comma exactly when the interior is not  *)
(* empty and does not already end with a comma.                                *)
C9_CommaOnlyWhenNeeded ==
    (applied >= 1 /\ HasLabel /\ IsBracedLine(text_in)) =>
        LET interior == LabelsOf(text_in)
            sep == IF interior # <<>> /\ interior[Len(interior)] # ","
                   THEN <<",">> ELSE <<>>
        IN  text_out = NameOf(text_in) \o <<"{">> \o interior \o sep
                         \o ExpectedLabel(instance_id) \o <<"}", " ">>
                         \o LabelledValue(text_in)

(* C10: with a label configured, a metric line with no space or tab outside    *)
(* double quotes, and a metric line whose first unquoted "{" has no matching   *)
(* unquoted "}", are both returned unchanged.                                  *)
C10_MalformedUnchanged ==
    (/\ applied >= 1 /\ HasLabel
     /\ IsMetricLine(text_in)
     /\ \/ UnquotedSpaces(text_in) = {}
        \/ (HasOpen(text_in) /\ ~HasMatch(text_in)))
    => text_out = text_in

----------------------------------------------------------------------------
(* Properties of run_script, under SpecRun *)

\* b is what follows the last "/" of path p
IsBasenameOf(b, p) ==
    \E k \in 0..Len(p) :
        /\ b = SubSeq(p, k + 1, Len(p))
        /\ \A i \in 1..Len(b) : b[i] # "/"
        /\ k = 0 \/ p[k] = "/"

SentinelScript == <<"#"," ","E","R","R","O","R",":"," ","S","c","r","i","p","t"," ">>
SentinelFailed == <<" ","f","a","i","l","e","d","\n">>
SentinelTimedOut == <<" ","t","i","m","e","d"," ","o","u","t"," ","a","f","t","e","r"," ">>
SentinelFailedToRun == <<"#"," ","E","R","R","O","R",":"," ","F","a","i","l","e","d"," ","t","o"," ","r","u","n"," ","s","c","r","i","p","t"," ">>

EffectiveTimeout == IF rs_call.timeout.none THEN 20 ELSE rs_call.timeout.val

(* C6: run_script always returns, and what it returns is decided by the        *)
(* outcome: the captured stdout on exit status 0; exactly the failure sentinel *)
(* on another status, with neither stdout nor stderr in it; exactly the        *)
(* timeout sentinel, with the timeout in force, when the child outlives it;    *)
(* the failed-to-run sentinel with a reason for a path that is no file and for *)
(* any other error.                                                            *)
C6_RunScriptReturnsText ==
    rs_ret.done =>
        /\ rs_ret.exc = "none"
        /\ \E b \in {SubSeq(rs_call.script_path, k + 1, Len(rs_call.script_path)) :
                       k \in 0..Len(rs_call.script_path)} :
             /\ IsBasenameOf(b, rs_call.script_path)
             /\ IF ~rs_call.isfile
                THEN \E reason \in {SubSeq(rs_ret.text, k, Len(rs_ret.text) - 1) :
                                      k \in 1..Len(rs_ret.text)} :
                       /\ reason # <<>>
                       /\ rs_ret.text = SentinelFailedToRun \o b \o <<":", " ">>
                                          \o reason \o <<"\n">>
                ELSE IF rs_call.proc.kind = "oserror"
                THEN rs_ret.text = SentinelFailedToRun \o b \o <<":", " ">>
                                     \o rs_call.proc.reason \o <<"\n">>
                ELSE IF rs_call.proc.kind = "hang"
                THEN rs_ret.text = SentinelScript \o b \o SentinelTimedOut
                                     \o IntToStr(EffectiveTimeout) \o <<"s", "\n">>
                ELSE IF rs_call.proc.returncode # 0
                THEN rs_ret.text = SentinelScript \o b \o SentinelFailed
                ELSE rs_ret.text = rs_call.proc.stdout

\* C6's case: a script in a directory, with a stdout of its own, exited with a
\* non-zero status and the call returned a sentinel naming the file only
C6_Witness ==
    /\ rs_ret.done
    /\ rs_call.isfile
    /\ rs_call.proc.kind = "exit"
    /\ rs_call.proc.returncode # 0
    /\ rs_call.proc.stdout # <<>>
    /\ \E i \in 1..Len(rs_call.script_path) : rs_call.script_path[i] = "/"
    /\ rs_ret.text # rs_call.proc.stdout
    /\ Len(rs_ret.text) < Len(SentinelScript \o rs_call.script_path \o SentinelFailed)

----------------------------------------------------------------------------
(* Properties of the worker count, under SpecWorkers *)

(* C7: the resolved worker count lies in 1..10: a configured value that        *)
(* parses as the integer n gives max(1, min(n, 10)), one that does not parse   *)
(* gives 1, and no configured value gives min(number of scripts, 10), and 1    *)
(* for no script.                                                              *)
C7_WorkerCount ==
    pc = "done" =>
        /\ max_workers \in 1..10
        /\ configured_workers.kind = "none" =>
             max_workers = (IF Len(scripts) = 0 THEN 1
                            ELSE IF Len(scripts) < 10 THEN Len(scripts) ELSE 10)
        /\ (configured_workers.kind # "none" /\ PyInt(configured_workers).ok) =>
             LET n == PyInt(configured_workers).val
             IN  max_workers = (IF n < 1 THEN 1 ELSE IF n > 10 THEN 10 ELSE n)
        /\ (configured_workers.kind # "none" /\ ~PyInt(configured_workers).ok) =>
             max_workers = 1

\* C7's case: a configured string that is no integer was resolved, with more than
\* one script configured
C7_Witness ==
    /\ pc = "done"
    /\ configured_workers.kind = "str"
    /\ \E i \in 1..Len(configured_workers.str) : configured_workers.str[i] = "a"
    /\ Len(scripts) > 1
    /\ max_workers = 1

====
